---- MODULE Spec2Model ----
(***************************************************************************)
(* A model of the rustcxx header library: the tagged union rust::Enum,     *)
(* the pattern dispatcher rust::match, rust::Result, rust::Option and the  *)
(* ENUM_VARIANT payload-record macros.                                     *)
(*                                                                         *)
(* The repository holds two revisions of the header:                       *)
(*   "cxx11"  src/include/rustcxx.hpp          (variant-lite/optional-lite)*)
(*   "cxx20"  src/include/rustcxx/rustcxx.hpp  (std::variant/std::optional)*)
(* The variable rev says which one the program includes.                   *)
(*                                                                         *)
(* The modelled instantiations are                                         *)
(*   Enum<int, std::string, Pair>   with Pair a two-int payload record,    *)
(*   Result<int, std::string>       and   Option<int>.                     *)
(* A variant is a discriminant and a storage slot; a payload is written as *)
(* the sequence of naturals its storage holds: an int n is <<n>>, a string *)
(* is the sequence of its character codes, a record is the sequence of its *)
(* fields. Which type the storage has is known from the discriminant only. *)
(***************************************************************************)
EXTENDS Integers, Sequences, FiniteSets, TLC

VARIABLES
  rev,      \* which revision of the header the program includes
  e,        \* an Enum<int, std::string, Pair>: its value_
  written,  \* history: the type and value last written to e, and whether
            \* the payload has been moved out of e since
  r,        \* a Result<int, std::string>: its value_
  rmade,    \* history: the named constructor and argument that made r
  o,        \* an Option<int>: its value_
  omade,    \* history: the constructor and argument that made o
  last      \* the last operation called: receiver, argument, outcome, callbacks

vars == <<rev, e, written, r, rmade, o, omade, last>>

\* ------------------------------------------------------------- bounds

\* ints are 0..MaxInt
MaxInt == 2
\* character codes are 1..MaxChar
MaxChar == 2
\* strings have at most MaxLen characters
MaxLen == 1
\* payload records have 1..MaxFields fields
MaxFields == 2
\* a chain has at most MaxChain and_then calls
MaxChain == 2

Revs == {"cxx11", "cxx20"}

Ints == {<<n>> : n \in 0..MaxInt}

Texts == UNION {[1..n -> 1..MaxChar] : n \in 0..MaxLen}

Pairs == {<<x, y>> : x \in 0..MaxInt, y \in 0..MaxInt}

\* the alternative list of Enum<int, std::string, Pair>
EnumTypes == <<"Int", "Text", "Pair">>

\* the alternative list of Result<int, std::string>: std::variant<T, E>
ResultTypes == <<"Int", "Text">>

Values(T) ==
  CASE T = "Int" -> Ints
    [] T = "Text" -> Texts
    [] T = "Pair" -> Pairs

\* ------------------------------------------------------ call outcomes

\* a call that returned v
Ret(v) == [status |-> "ok", val |-> v, exc |-> "", what |-> ""]

\* a call that left by an exception of type exc with message what
Throw(exc, what) == [status |-> "throw", val |-> <<>>, exc |-> exc, what |-> what]

\* a pointer result: NULL, or the address of a payload
Ptr(null, v) == [null |-> null, val |-> v]

\* what an operation did: its name, the receiver before it, its argument,
\* its outcome and the user callables it invoked, in order
Obs(op, pre, arg, out, calls) ==
  [op |-> op, pre |-> pre, arg |-> arg, out |-> out, calls |-> calls]

\* one invocation of a user callable
Call(f, arg) == [f |-> f, arg |-> arg]

\* ------------------------------------------------- payload records

\* operator== of a record the macros generate: cxx11 returns true whatever
\* the fields hold; cxx20 defaults the comparison, which is member-wise
RecordEq(rv, a, b) ==
  IF rv = "cxx11"
    THEN TRUE
    ELSE Len(a) = Len(b) /\ \A i \in 1..Len(a) : a[i] = b[i]

\* operator!= of a record the macros generate
RecordNe(rv, a, b) ==
  IF rv = "cxx11"
    THEN FALSE
    ELSE ~RecordEq(rv, a, b)

\* the payload type's own operator==
PayloadEq(rv, T, a, b) ==
  IF T = "Pair" THEN RecordEq(rv, a, b) ELSE a = b

\* the payload type's own operator!=
PayloadNe(rv, T, a, b) ==
  IF T = "Pair" THEN RecordNe(rv, a, b) ELSE a # b

\* ------------------------------------------------------------ Enum

\* the zero-based position of T in a type list
IndexOf(types, T) == (CHOOSE i \in 1..Len(types) : types[i] = T) - 1

\* the type at a zero-based position of a type list
TypeAt(types, i) == types[i + 1]

\* Enum(T&& t): value_ is constructed from t
Enum_ctor(T, v) == [index |-> IndexOf(EnumTypes, T), storage |-> v]

\* an assignment that stores the value and leaves the discriminant
Enum_assign_keepindex(self, T, v) == [index |-> self.index, storage |-> v]

\* operator=(T&& t): value_ = t
Enum_assign(self, T, v) == [index |-> IndexOf(EnumTypes, T), storage |-> v]

\* index()
Enum_index(self) == self.index

\* is<T>(): holds_alternative<T>(value_)
Enum_is(self, T) == self.index = IndexOf(EnumTypes, T)

\* a get<T>() without its is<T>() test
Enum_get_unchecked(rv, self, T) == Ret(self.storage)

\* get<T>(): cxx11 tests is<T>() and throws std::runtime_error itself; cxx20
\* leaves the test to std::get<T>, which throws std::bad_variant_access (its
\* what() is the standard library's and is not modelled)
Enum_get(rv, self, T) ==
  IF ~Enum_is(self, T)
    THEN IF rv = "cxx11"
           THEN Throw("std::runtime_error", "bad variant access")
           ELSE Throw("std::bad_variant_access", "")
    ELSE Ret(self.storage)

\* get_if<T>()
Enum_get_if(rv, self, T) ==
  IF ~Enum_is(self, T)
    THEN Ptr(TRUE, <<>>)
    ELSE Ptr(FALSE, self.storage)

\* an operator== that compares the storage and not the discriminant
Enum_eq_nodisc(rv, a, b) == a.storage = b.storage

\* operator==: value_ == other.value_
Enum_eq(rv, a, b) ==
  /\ a.index = b.index
  /\ PayloadEq(rv, TypeAt(EnumTypes, a.index), a.storage, b.storage)

\* operator!=: value_ != other.value_; variant-lite negates its operator==,
\* std::variant applies the active alternative's operator!=
Enum_ne(rv, a, b) ==
  IF rv = "cxx11"
    THEN ~Enum_eq(rv, a, b)
    ELSE \/ a.index # b.index
         \/ PayloadNe(rv, TypeAt(EnumTypes, a.index), a.storage, b.storage)

Enums == {Enum_ctor(T, v) : T \in {"Int"}, v \in Ints}
         \cup {Enum_ctor(T, v) : T \in {"Text"}, v \in Texts}
         \cup {Enum_ctor(T, v) : T \in {"Pair"}, v \in Pairs}

AllTypes == {"Int", "Text", "Pair"}

\* ------------------------------------------------------ rust::match

\* the handlers a caller passes to match: one lambda per alternative type,
\* named after the parameter type it accepts
Handler(T) == [name |-> "on" \o T, param |-> T]

\* the body of a handler: it returns its own tag followed by its argument
HandlerBody(h, v) == <<IndexOf(EnumTypes, h.param) + 1>> \o v

\* every argument order of one handler per type of a type list
HandlerLists(types) ==
  {hs \in [1..Len(types) -> {Handler(types[i]) : i \in 1..Len(types)}] :
     \A i, j \in 1..Len(types) : hs[i] = hs[j] => i = j}

\* overload resolution in overloads<Ts...>: the operator() whose parameter
\* type is the argument's type
Overload(hs, T) == hs[CHOOSE k \in 1..Len(hs) : hs[k].param = T]

\* a dispatcher that takes the handler at the position of the discriminant
rust_match_positional(types, variant, hs) ==
  LET h == hs[variant.index + 1]
  IN  [out |-> Ret(HandlerBody(h, variant.storage)),
       calls |-> <<Call(h.name, variant.storage)>>]

\* rust::match(variant, ts...): visit(overloads{ts...}, variant)
rust_match(types, variant, hs) ==
  LET h == Overload(hs, TypeAt(types, variant.index))
  IN  [out |-> Ret(HandlerBody(h, variant.storage)),
       calls |-> <<Call(h.name, variant.storage)>>]

\* Enum::match(ts...)
Enum_match(self, hs) == rust_match(EnumTypes, self, hs)

\* ----------------------------------------------------------- Result

\* the functions int -> int a caller passes to map
IntFns == {"double", "succ", "zero"}

\* f(x) for f in IntFns
ApplyInt(f, x) ==
  CASE f = "double" -> <<2 * x[1]>>
    [] f = "succ" -> <<x[1] + 1>>
    [] f = "zero" -> <<0>>

\* the functions std::string -> std::string a caller passes to map_err
TextFns == {"twice", "clear"}

\* g(s) for g in TextFns
ApplyText(g, s) ==
  CASE g = "twice" -> s \o s
    [] g = "clear" -> <<>>

\* Result::Ok(value): Result(value), value_ constructed from a T
Result_Ok(x) == [index |-> IndexOf(ResultTypes, "Int"), storage |-> x]

\* Result::Err(error): Result(error), value_ constructed from an E
Result_Err(t) == [index |-> IndexOf(ResultTypes, "Text"), storage |-> t]

\* is_ok(): holds_alternative<T>(value_)
Result_is_ok(self) == self.index = IndexOf(ResultTypes, "Int")

\* is_err(): holds_alternative<E>(value_)
Result_is_err(self) == self.index = IndexOf(ResultTypes, "Text")

\* an unwrap() without its is_err() test
Result_unwrap_unchecked(self) == Ret(self.storage)

\* unwrap()
Result_unwrap(self) ==
  IF Result_is_err(self)
    THEN Throw("std::runtime_error", "Called unwrap() on an Err Result")
    ELSE Ret(self.storage)

\* unwrap_err()
Result_unwrap_err(self) ==
  IF Result_is_ok(self)
    THEN Throw("std::runtime_error", "Called unwrap_err() on an Ok Result")
    ELSE Ret(self.storage)

\* unwrap_or(default_value)
Result_unwrap_or(self, d) ==
  IF Result_is_ok(self) THEN Ret(self.storage) ELSE Ret(d)

\* a map() that calls f before looking at the state
Result_map_eager(self, f) ==
  [res |-> IF Result_is_ok(self)
             THEN Result_Ok(ApplyInt(f, self.storage))
             ELSE Result_Err(self.storage),
   calls |-> <<Call(f, self.storage)>>]

\* map(f)
Result_map(self, f) ==
  IF Result_is_ok(self)
    THEN [res |-> Result_Ok(ApplyInt(f, self.storage)),
          calls |-> <<Call(f, self.storage)>>]
    ELSE [res |-> Result_Err(self.storage), calls |-> <<>>]

\* map_err(f)
Result_map_err(self, g) ==
  IF Result_is_err(self)
    THEN [res |-> Result_Err(ApplyText(g, self.storage)),
          calls |-> <<Call(g, self.storage)>>]
    ELSE [res |-> Result_Ok(self.storage), calls |-> <<>>]

\* the continuations int -> Result<int, std::string> a caller passes to and_then
Conts == {"half", "fail", "inc"}

\* k(x) for k in Conts
ApplyCont(k, x) ==
  CASE k = "half" -> IF x[1] % 2 = 0 THEN Result_Ok(<<x[1] \div 2>>)
                                      ELSE Result_Err(<<1>>)
    [] k = "fail" -> Result_Err(<<2>>)
    [] k = "inc" -> Result_Ok(<<x[1] + 1>>)

\* an and_then() without its is_ok() test: the continuation runs on an Err
\* receiver too, on a value-initialised T
Result_and_then_through(self, k) ==
  [res |-> ApplyCont(k, IF Result_is_ok(self) THEN self.storage ELSE <<0>>),
   calls |-> <<Call(k, self.storage)>>]

\* and_then(f)
Result_and_then(self, k) ==
  IF Result_is_ok(self)
    THEN [res |-> ApplyCont(k, self.storage),
          calls |-> <<Call(k, self.storage)>>]
    ELSE [res |-> Result_Err(self.storage), calls |-> <<>>]

\* x.and_then(k1).and_then(k2)...: each call made on the Result the
\* previous one returned
RECURSIVE AndThenChain(_, _)
AndThenChain(self, ks) ==
  IF ks = <<>>
    THEN [res |-> self, calls |-> <<>>]
    ELSE LET first == Result_and_then(self, Head(ks))
             rest == AndThenChain(first.res, Tail(ks))
         IN  [res |-> rest.res, calls |-> first.calls \o rest.calls]

\* Result::match(ts...)
Result_match(self, hs) == rust_match(ResultTypes, self, hs)

Results == {Result_Ok(x) : x \in Ints} \cup {Result_Err(t) : t \in Texts}

\* the states a payload of type T holding v may be left in once it has been
\* handed to a move constructor: an int and a record of ints are copied; a
\* moved-from std::string is left empty, whatever its length
MovedFrom(T, v) == IF T = "Text" THEN {<<>>} ELSE {v}

\* unwrap() on an rvalue receiver: cxx20 has T&& unwrap() &&, which returns a
\* reference into value_ and moves nothing; cxx11 has no ref-qualified
\* overload and calls unwrap()
Result_unwrap_rvalue(rv, self) ==
  [out |-> Result_unwrap(self), posts |-> {self}]

\* unwrap_or(default_value) on an rvalue receiver: cxx20 has unwrap_or(U&&) &&,
\* which move-constructs the returned T from get<T>(std::move(value_)); cxx11
\* calls unwrap_or(U&&) const, which copies
Result_unwrap_or_rvalue(rv, self, d) ==
  [out |-> Result_unwrap_or(self, d),
   posts |-> IF rv = "cxx20" /\ Result_is_ok(self)
               THEN {[self EXCEPT !.storage = s] :
                       s \in MovedFrom(TypeAt(ResultTypes, self.index), self.storage)}
               ELSE {self}]

\* match(ts...) on an rvalue receiver: cxx20 has match(Ts&&...) &&, which
\* visits std::move(value_), so a handler that takes its parameter by value
\* move-constructs it from the payload; cxx11 calls match(Ts&&...), which
\* visits value_
Result_match_rvalue(rv, self, hs, byvalue) ==
  LET m == Result_match(self, hs)
  IN  [out |-> m.out,
       calls |-> m.calls,
       posts |-> IF rv = "cxx20" /\ byvalue
                   THEN {[self EXCEPT !.storage = s] :
                           s \in MovedFrom(TypeAt(ResultTypes, self.index), self.storage)}
                   ELSE {self}]

\* Enum::match(ts...) on an rvalue receiver: match(Ts&&...) &&, in both
\* revisions, visits std::move(value_), so a handler that takes its
\* parameter by value move-constructs it from the payload
Enum_match_rvalue(self, hs, byvalue) ==
  LET m == Enum_match(self, hs)
  IN  [out |-> m.out,
       calls |-> m.calls,
       posts |-> IF byvalue
                   THEN {[self EXCEPT !.storage = s] :
                           s \in MovedFrom(TypeAt(EnumTypes, self.index), self.storage)}
                   ELSE {self}]

\* ----------------------------------------------------------- Option

\* the continuations int -> Option<int> a caller passes to Option::and_then
OptConts == {"pred", "none", "inc"}

\* Option::Some(value)
Option_Some(x) == [has |-> TRUE, storage |-> x]

\* Option(): value_ holds nothing
Option_ctor == [has |-> FALSE, storage |-> <<>>]

\* Option::None(): Option()
Option_None == Option_ctor

\* k(x) for k in OptConts
ApplyOptCont(k, x) ==
  CASE k = "pred" -> IF x[1] > 0 THEN Option_Some(<<x[1] - 1>>) ELSE Option_None
    [] k = "none" -> Option_None
    [] k = "inc" -> Option_Some(<<x[1] + 1>>)

\* is_some(): value_.has_value()
Option_is_some(self) == self.has

\* is_none(): !value_.has_value()
Option_is_none(self) == ~self.has

\* an unwrap() without its is_none() test
Option_unwrap_unchecked(self) == Ret(self.storage)

\* an unwrap() that throws with the message of Result::unwrap
Option_unwrap_copied(self) ==
  IF Option_is_none(self)
    THEN Throw("std::runtime_error", "Called unwrap() on an Err Result")
    ELSE Ret(self.storage)

\* unwrap()
Option_unwrap(self) ==
  IF Option_is_none(self)
    THEN Throw("std::runtime_error", "Called unwrap() on a None Option")
    ELSE Ret(self.storage)

\* unwrap_or(default_value)
Option_unwrap_or(self, d) ==
  IF Option_is_some(self) THEN Ret(self.storage) ELSE Ret(d)

\* map(f)
Option_map(self, f) ==
  IF Option_is_some(self)
    THEN [res |-> Option_Some(ApplyInt(f, self.storage)),
          calls |-> <<Call(f, self.storage)>>]
    ELSE [res |-> Option_None, calls |-> <<>>]

\* an and_then() without its is_some() test: the continuation runs on a None
\* receiver too, on a value-initialised T
Option_and_then_through(self, k) ==
  [res |-> ApplyOptCont(k, IF Option_is_some(self) THEN self.storage ELSE <<0>>),
   calls |-> <<Call(k, self.storage)>>]

\* and_then(f)
Option_and_then(self, k) ==
  IF Option_is_some(self)
    THEN [res |-> ApplyOptCont(k, self.storage),
          calls |-> <<Call(k, self.storage)>>]
    ELSE [res |-> Option_None, calls |-> <<>>]

\* match(some_func, none_func): some_func returns its argument's successor,
\* none_func returns 0
Option_match(self) ==
  IF Option_is_some(self)
    THEN [out |-> Ret(<<self.storage[1] + 1>>),
          calls |-> <<Call("some_func", self.storage)>>]
    ELSE [out |-> Ret(<<0>>), calls |-> <<Call("none_func", <<>>)>>]

Options == {Option_Some(x) : x \in Ints} \cup {Option_None}

\* ------------------------------------------------- record construction

\* name(v1, ..., vn): field_i(v_i)
Record_ctor(vs) == [i \in 1..Len(vs) |-> vs[i]]

\* the argument lists of the value constructors of records of 1..MaxFields
\* int fields
FieldLists == UNION {[1..n -> 0..MaxInt] : n \in 1..MaxFields}

\* ------------------------------------------------------------ actions

NoObs == Obs("none", <<>>, <<>>, Ret(<<>>), <<>>)

\* Enum<int, std::string, Pair> x = v
EnumConstruct ==
  \E T \in AllTypes : \E v \in Values(T) :
    /\ e' = Enum_ctor(T, v)
    /\ written' = [type |-> T, val |-> v, moved |-> FALSE]
    /\ last' = Obs("Enum::ctor", e, [type |-> T, val |-> v], Ret(<<>>), <<>>)
    /\ UNCHANGED <<rev, r, rmade, o, omade>>

\* x = v
EnumAssign ==
  \E T \in AllTypes : \E v \in Values(T) :
    /\ e' = Enum_assign(e, T, v)
    /\ written' = [type |-> T, val |-> v, moved |-> FALSE]
    /\ last' = Obs("Enum::assign", e, [type |-> T, val |-> v], Ret(<<>>), <<>>)
    /\ UNCHANGED <<rev, r, rmade, o, omade>>

\* x.get<T>()
EnumGet ==
  \E T \in AllTypes :
    /\ last' = Obs("Enum::get", e, T, Enum_get(rev, e, T), <<>>)
    /\ UNCHANGED <<rev, e, written, r, rmade, o, omade>>

\* x.get_if<T>()
EnumGetIf ==
  \E T \in AllTypes :
    /\ last' = Obs("Enum::get_if", e, T, Enum_get_if(rev, e, T), <<>>)
    /\ UNCHANGED <<rev, e, written, r, rmade, o, omade>>

\* x == y and x != y
EnumCompare ==
  \E b \in Enums :
    /\ last' = Obs("Enum::compare", e, b,
                   [eq |-> Enum_eq(rev, e, b), ne |-> Enum_ne(rev, e, b)], <<>>)
    /\ UNCHANGED <<rev, e, written, r, rmade, o, omade>>

\* x.match(h1, h2, h3)
EnumMatch ==
  \E hs \in HandlerLists(EnumTypes) :
    LET m == Enum_match(e, hs)
    IN  /\ last' = Obs("Enum::match", e, hs, m.out, m.calls)
        /\ UNCHANGED <<rev, e, written, r, rmade, o, omade>>

\* std::move(x).match(h1, h2, h3), the handlers taking their parameter by
\* value or by const reference
EnumMatchRvalue ==
  \E hs \in HandlerLists(EnumTypes) : \E byvalue \in BOOLEAN :
    LET m == Enum_match_rvalue(e, hs, byvalue)
    IN  \E post \in m.posts :
          /\ e' = post
          /\ written' = [written EXCEPT !.moved = @ \/ post # e]
          /\ last' = Obs("Enum::match&&", e, [hs |-> hs, byvalue |-> byvalue],
                         m.out, m.calls)
          /\ UNCHANGED <<rev, r, rmade, o, omade>>

\* auto x = Result<int, std::string>::Ok(v)
ResultOk ==
  \E x \in Ints :
    /\ r' = Result_Ok(x)
    /\ rmade' = [ctor |-> "Ok", val |-> x]
    /\ last' = Obs("Result::Ok", r, x, Ret(<<>>), <<>>)
    /\ UNCHANGED <<rev, e, written, o, omade>>

\* auto x = Result<int, std::string>::Err(t)
ResultErr ==
  \E t \in Texts :
    /\ r' = Result_Err(t)
    /\ rmade' = [ctor |-> "Err", val |-> t]
    /\ last' = Obs("Result::Err", r, t, Ret(<<>>), <<>>)
    /\ UNCHANGED <<rev, e, written, o, omade>>

\* x.unwrap()
ResultUnwrap ==
  /\ last' = Obs("Result::unwrap", r, <<>>, Result_unwrap(r), <<>>)
  /\ UNCHANGED <<rev, e, written, r, rmade, o, omade>>

\* x.unwrap_err()
ResultUnwrapErr ==
  /\ last' = Obs("Result::unwrap_err", r, <<>>, Result_unwrap_err(r), <<>>)
  /\ UNCHANGED <<rev, e, written, r, rmade, o, omade>>

\* x.unwrap_or(d)
ResultUnwrapOr ==
  \E d \in Ints :
    /\ last' = Obs("Result::unwrap_or", r, d, Result_unwrap_or(r, d), <<>>)
    /\ UNCHANGED <<rev, e, written, r, rmade, o, omade>>

\* a map that stores the mapped Result in the receiver
ResultMap_inplace ==
  \E f \in IntFns :
    LET m == Result_map(r, f)
    IN  /\ r' = m.res
        /\ last' = Obs("Result::map", r, f, Ret(m.res), m.calls)
        /\ UNCHANGED <<rev, e, written, rmade, o, omade>>

\* x.map(f)
ResultMap ==
  \E f \in IntFns :
    LET m == Result_map(r, f)
    IN  /\ last' = Obs("Result::map", r, f, Ret(m.res), m.calls)
        /\ UNCHANGED <<rev, e, written, r, rmade, o, omade>>

\* x.map_err(g)
ResultMapErr ==
  \E g \in TextFns :
    LET m == Result_map_err(r, g)
    IN  /\ last' = Obs("Result::map_err", r, g, Ret(m.res), m.calls)
        /\ UNCHANGED <<rev, e, written, r, rmade, o, omade>>

\* x.and_then(k1) ... .and_then(kn), n in 1..MaxChain
ResultAndThen ==
  \E n \in 1..MaxChain : \E ks \in [1..n -> Conts] :
    LET m == AndThenChain(r, ks)
    IN  /\ last' = Obs("Result::and_then", r, ks, Ret(m.res), m.calls)
        /\ UNCHANGED <<rev, e, written, r, rmade, o, omade>>

\* x.match(h1, h2)
ResultMatch ==
  \E hs \in HandlerLists(ResultTypes) :
    LET m == Result_match(r, hs)
    IN  /\ last' = Obs("Result::match", r, hs, m.out, m.calls)
        /\ UNCHANGED <<rev, e, written, r, rmade, o, omade>>

\* x.is_ok()
ResultIsOk ==
  /\ last' = Obs("Result::is_ok", r, <<>>, Ret(Result_is_ok(r)), <<>>)
  /\ UNCHANGED <<rev, e, written, r, rmade, o, omade>>

\* x.is_err()
ResultIsErr ==
  /\ last' = Obs("Result::is_err", r, <<>>, Ret(Result_is_err(r)), <<>>)
  /\ UNCHANGED <<rev, e, written, r, rmade, o, omade>>

\* std::move(x).unwrap()
ResultUnwrapRvalue ==
  LET m == Result_unwrap_rvalue(rev, r)
  IN  \E post \in m.posts :
        /\ r' = post
        /\ last' = Obs("Result::unwrap&&", r, <<>>, m.out, <<>>)
        /\ UNCHANGED <<rev, e, written, rmade, o, omade>>

\* std::move(x).unwrap_or(d)
ResultUnwrapOrRvalue ==
  \E d \in Ints :
    LET m == Result_unwrap_or_rvalue(rev, r, d)
    IN  \E post \in m.posts :
          /\ r' = post
          /\ last' = Obs("Result::unwrap_or&&", r, d, m.out, <<>>)
          /\ UNCHANGED <<rev, e, written, rmade, o, omade>>

\* std::move(x).match(h1, h2), the handlers taking their parameter by value
\* or by const reference
ResultMatchRvalue ==
  \E hs \in HandlerLists(ResultTypes) : \E byvalue \in BOOLEAN :
    LET m == Result_match_rvalue(rev, r, hs, byvalue)
    IN  \E post \in m.posts :
          /\ r' = post
          /\ last' = Obs("Result::match&&", r, [hs |-> hs, byvalue |-> byvalue],
                         m.out, m.calls)
          /\ UNCHANGED <<rev, e, written, rmade, o, omade>>

\* auto x = Option<int>::Some(v)
OptionSome ==
  \E x \in Ints :
    /\ o' = Option_Some(x)
    /\ omade' = [ctor |-> "Some", val |-> x]
    /\ last' = Obs("Option::Some", o, x, Ret(<<>>), <<>>)
    /\ UNCHANGED <<rev, e, written, r, rmade>>

\* auto x = Option<int>::None()
OptionNone ==
  /\ o' = Option_None
  /\ omade' = [ctor |-> "None", val |-> <<>>]
  /\ last' = Obs("Option::None", o, <<>>, Ret(<<>>), <<>>)
  /\ UNCHANGED <<rev, e, written, r, rmade>>

\* Option<int> x;
OptionDefault ==
  /\ o' = Option_ctor
  /\ omade' = [ctor |-> "Option", val |-> <<>>]
  /\ last' = Obs("Option::Option", o, <<>>, Ret(<<>>), <<>>)
  /\ UNCHANGED <<rev, e, written, r, rmade>>

\* x.unwrap()
OptionUnwrap ==
  /\ last' = Obs("Option::unwrap", o, <<>>, Option_unwrap(o), <<>>)
  /\ UNCHANGED <<rev, e, written, r, rmade, o, omade>>

\* x.unwrap_or(d)
OptionUnwrapOr ==
  \E d \in Ints :
    /\ last' = Obs("Option::unwrap_or", o, d, Option_unwrap_or(o, d), <<>>)
    /\ UNCHANGED <<rev, e, written, r, rmade, o, omade>>

\* x.map(f)
OptionMap ==
  \E f \in IntFns :
    LET m == Option_map(o, f)
    IN  /\ last' = Obs("Option::map", o, f, Ret(m.res), m.calls)
        /\ UNCHANGED <<rev, e, written, r, rmade, o, omade>>

\* x.and_then(k)
OptionAndThen ==
  \E k \in OptConts :
    LET m == Option_and_then(o, k)
    IN  /\ last' = Obs("Option::and_then", o, k, Ret(m.res), m.calls)
        /\ UNCHANGED <<rev, e, written, r, rmade, o, omade>>

\* x.match(some_func, none_func)
OptionMatch ==
  LET m == Option_match(o)
  IN  /\ last' = Obs("Option::match", o, <<>>, m.out, m.calls)
      /\ UNCHANGED <<rev, e, written, r, rmade, o, omade>>

\* name a(v...), b(w...); a == b; a != b
RecordCompare ==
  \E vs \in FieldLists : \E ws \in [1..Len(vs) -> 0..MaxInt] :
    LET a == Record_ctor(vs)
        b == Record_ctor(ws)
    IN  /\ last' = Obs("record_compare", a, b,
                       [eq |-> RecordEq(rev, a, b), ne |-> RecordNe(rev, a, b)],
                       <<>>)
        /\ UNCHANGED <<rev, e, written, r, rmade, o, omade>>

\* ----------------------------------------------------- specifications

\* the objects a specification does not exercise stay as constructed here
IdleEnum ==
  /\ e = Enum_ctor("Int", <<0>>)
  /\ written = [type |-> "Int", val |-> <<0>>, moved |-> FALSE]

IdleResult == r = Result_Ok(<<0>>) /\ rmade = [ctor |-> "Ok", val |-> <<0>>]

IdleOption == o = Option_ctor /\ omade = [ctor |-> "Option", val |-> <<>>]

InitEnum ==
  /\ rev \in Revs
  /\ \E T \in AllTypes : \E v \in Values(T) :
       /\ e = Enum_ctor(T, v)
       /\ written = [type |-> T, val |-> v, moved |-> FALSE]
  /\ IdleResult
  /\ IdleOption
  /\ last = NoObs

NextEnum ==
  \/ EnumConstruct
  \/ EnumAssign
  \/ EnumGet
  \/ EnumGetIf
  \/ EnumCompare
  \/ EnumMatch
  \/ EnumMatchRvalue

SpecEnum == InitEnum /\ [][NextEnum]_vars

InitResult ==
  /\ rev \in Revs
  /\ IdleEnum
  /\ \E x \in Results :
       /\ r = x
       /\ rmade = [ctor |-> IF Result_is_ok(x) THEN "Ok" ELSE "Err", val |-> x.storage]
  /\ IdleOption
  /\ last = NoObs

NextResult ==
  \/ ResultOk
  \/ ResultErr
  \/ ResultUnwrap
  \/ ResultUnwrapErr
  \/ ResultUnwrapOr
  \/ ResultMap
  \/ ResultMapErr
  \/ ResultAndThen
  \/ ResultMatch

SpecResult == InitResult /\ [][NextResult]_vars

\* every member function of Result, called on lvalue and on rvalue receivers
NextResultMove ==
  \/ ResultOk
  \/ ResultErr
  \/ ResultIsOk
  \/ ResultIsErr
  \/ ResultUnwrap
  \/ ResultUnwrapErr
  \/ ResultUnwrapOr
  \/ ResultMap
  \/ ResultMapErr
  \/ ResultAndThen
  \/ ResultMatch
  \/ ResultUnwrapRvalue
  \/ ResultUnwrapOrRvalue
  \/ ResultMatchRvalue

SpecResultMove == InitResult /\ [][NextResultMove]_vars

InitMatch ==
  /\ rev \in Revs
  /\ \E T \in AllTypes : \E v \in Values(T) :
       /\ e = Enum_ctor(T, v)
       /\ written = [type |-> T, val |-> v, moved |-> FALSE]
  /\ \E x \in Results :
       /\ r = x
       /\ rmade = [ctor |-> IF Result_is_ok(x) THEN "Ok" ELSE "Err", val |-> x.storage]
  /\ IdleOption
  /\ last = NoObs

NextMatch ==
  \/ EnumAssign
  \/ EnumMatch
  \/ EnumMatchRvalue
  \/ ResultOk
  \/ ResultErr
  \/ ResultMatch
  \/ ResultMatchRvalue

SpecMatch == InitMatch /\ [][NextMatch]_vars

\* the four checked accessors, called on every Enum, Result and Option
InitErrors ==
  /\ rev \in Revs
  /\ \E T \in AllTypes : \E v \in Values(T) :
       /\ e = Enum_ctor(T, v)
       /\ written = [type |-> T, val |-> v, moved |-> FALSE]
  /\ \E x \in Results :
       /\ r = x
       /\ rmade = [ctor |-> IF Result_is_ok(x) THEN "Ok" ELSE "Err", val |-> x.storage]
  /\ \E x \in Options :
       /\ o = x
       /\ omade = [ctor |-> IF Option_is_some(x) THEN "Some" ELSE "None", val |-> x.storage]
  /\ last = NoObs

NextErrors ==
  \/ EnumGet
  \/ ResultUnwrap
  \/ ResultUnwrapErr
  \/ OptionUnwrap

SpecErrors == InitErrors /\ [][NextErrors]_vars

InitOption ==
  /\ rev \in Revs
  /\ IdleEnum
  /\ IdleResult
  /\ IdleOption
  /\ last = NoObs

NextOption ==
  \/ OptionSome
  \/ OptionNone
  \/ OptionDefault
  \/ OptionUnwrap
  \/ OptionUnwrapOr
  \/ OptionMap
  \/ OptionAndThen
  \/ OptionMatch

SpecOption == InitOption /\ [][NextOption]_vars

InitRecord ==
  /\ rev \in Revs
  /\ IdleEnum
  /\ IdleResult
  /\ IdleOption
  /\ last = NoObs

NextRecord == RecordCompare

SpecRecord == InitRecord /\ [][NextRecord]_vars

\* ------------------------------------------------------------ claims

\* the outcome of a checked accessor called for a type that is not active
WrongAlternativeAccess(out) ==
  /\ out.status = "throw"
  /\ out.exc \in {"std::runtime_error", "std::bad_variant_access"}

\* C1: after construction from a value and any sequence of assignments the
\* Enum reports exactly the last value written, v of type T_i: index() is i
\* and in range, is<T>() holds for T_i alone, get<T_i>() is v, and no other
\* alternative is readable.  The claim is about construction and assignment:
\* get<T_i>() is compared with v as long as no rvalue match has moved the
\* payload out since the last write; the discriminant is compared always.
C1_LastWriteObserved ==
  /\ Enum_index(e) = IndexOf(EnumTypes, written.type)
  /\ Enum_index(e) \in 0..(Len(EnumTypes) - 1)
  /\ \A T \in AllTypes : Enum_is(e, T) <=> (T = written.type)
  /\ ~written.moved => Enum_get(rev, e, written.type) = Ret(written.val)
  /\ \A T \in AllTypes \ {written.type} :
       /\ Enum_get(rev, e, T).status = "throw"
       /\ Enum_get_if(rev, e, T).null

\* an assignment has replaced a value of one alternative by one of another
C1_Witness ==
  /\ last.op = "Enum::assign"
  /\ Enum_index(last.pre) # Enum_index(e)
  /\ written.type = "Text"
  /\ ~written.moved
  /\ Enum_get(rev, e, "Text") = Ret(written.val)

\* C2: a == b exactly when the discriminants are equal and the active
\* payloads are equal under the payload type's own operator==; unequal
\* discriminants are never equal; a != b is the negation of a == b.
C2_EqualityByDiscriminantAndPayload ==
  last.op = "Enum::compare" =>
    LET a == last.pre
        b == last.arg
    IN  /\ last.out.eq <=>
             /\ Enum_index(a) = Enum_index(b)
             /\ PayloadEq(rev, TypeAt(EnumTypes, Enum_index(a)), a.storage, b.storage)
        /\ Enum_index(a) # Enum_index(b) => ~last.out.eq
        /\ last.out.ne <=> ~last.out.eq

\* two Enums of different alternatives whose storage holds the same bytes
\* were compared and found unequal
C2_Witness ==
  /\ last.op = "Enum::compare"
  /\ Enum_index(last.pre) # Enum_index(last.arg)
  /\ last.pre.storage = last.arg.storage
  /\ ~last.out.eq
  /\ last.out.ne

\* C3: get<T>() returns the payload when T is active and fails with the
\* wrong-alternative error otherwise; get_if<T>() never fails and is non-null
\* exactly when T is active; a failing get and a null get_if leave the
\* discriminant and the payload as they were.
C3_CheckedAccess ==
  LET payload == IF written.moved
                   THEN CHOOSE s \in MovedFrom(written.type, written.val) : TRUE
                   ELSE written.val
  IN
  /\ \A T \in AllTypes :
       /\ T = written.type => Enum_get(rev, e, T) = Ret(payload)
       /\ T # written.type => WrongAlternativeAccess(Enum_get(rev, e, T))
       /\ Enum_get_if(rev, e, T).null <=> (T # written.type)
       /\ ~Enum_get_if(rev, e, T).null => Enum_get_if(rev, e, T).val = payload
  /\ last.op = "Enum::get" =>
       /\ last.out = Enum_get(rev, last.pre, last.arg)
       /\ last.out.status = "throw" <=> ~Enum_is(last.pre, last.arg)
       /\ last.out.status = "throw" => e = last.pre
  /\ last.op = "Enum::get_if" =>
       /\ last.out.null <=> ~Enum_is(last.pre, last.arg)
       /\ last.out.null => e = last.pre

\* get<Text>() was called on an Enum holding an int: it failed and the Enum
\* still holds the int
C3_Witness ==
  /\ last.op = "Enum::get"
  /\ last.arg = "Text"
  /\ written.type = "Int"
  /\ WrongAlternativeAccess(last.out)
  /\ e = last.pre
  /\ Enum_get_if(rev, e, "Text").null

\* the handler of a handler list that a call record names
HandlerNamed(hs, name) == hs[CHOOSE k \in 1..Len(hs) : hs[k].name = name]

\* match on a variant over types invoked exactly one handler, the one whose
\* parameter type is the active alternative, once, with the payload, and
\* returned what it returned
MatchedByType(types, hs) ==
  LET T == TypeAt(types, last.pre.index)
      v == last.pre.storage
      h == HandlerNamed(hs, last.calls[1].f)
  IN  /\ Len(last.calls) = 1
      /\ h.param = T
      /\ last.calls[1].arg = v
      /\ last.out = Ret(HandlerBody(Handler(T), v))

\* Enum::match dispatched by type, on an lvalue and on an rvalue receiver,
\* and on an lvalue left the Enum as it was
C4_EnumMatchSelectsByType ==
  /\ last.op = "Enum::match" =>
       MatchedByType(EnumTypes, last.arg) /\ e = last.pre
  /\ last.op = "Enum::match&&" => MatchedByType(EnumTypes, last.arg.hs)

\* match was called on an Enum holding a Pair with the Pair handler passed
\* first, and the Pair handler ran
C4_Witness ==
  /\ last.op = "Enum::match"
  /\ written.type = "Pair"
  /\ last.arg[1].param = "Pair"
  /\ last.calls = <<Call("onPair", written.val)>>

\* Result::match dispatched by type, on an lvalue and on an rvalue receiver,
\* and on an lvalue left the Result as it was
C4_ResultMatchSelectsByType ==
  /\ last.op = "Result::match" =>
       MatchedByType(ResultTypes, last.arg) /\ r = last.pre
  /\ last.op = "Result::match&&" => MatchedByType(ResultTypes, last.arg.hs)

\* C4: match on an Enum or a Result, given one handler per alternative type
\* in any argument order, invokes exactly one handler, the one whose parameter
\* type is the active alternative, exactly once with the payload, and returns
\* that handler's result.
C4_MatchSelectsByType ==
  /\ C4_EnumMatchSelectsByType
  /\ C4_ResultMatchSelectsByType

\* C5: a Result is exactly one of Ok and Err; Ok(x): is_ok(), unwrap() is x,
\* unwrap_err() fails; Err(e): is_err(), unwrap_err() is e, unwrap() fails;
\* a failing accessor leaves the Result as it was.
C5_ResultAccessors ==
  /\ Result_is_ok(r) # Result_is_err(r)
  /\ rmade.ctor = "Ok" =>
       /\ Result_is_ok(r)
       /\ Result_unwrap(r) = Ret(rmade.val)
       /\ Result_unwrap_err(r) =
            Throw("std::runtime_error", "Called unwrap_err() on an Ok Result")
  /\ rmade.ctor = "Err" =>
       /\ Result_is_err(r)
       /\ Result_unwrap_err(r) = Ret(rmade.val)
       /\ Result_unwrap(r) =
            Throw("std::runtime_error", "Called unwrap() on an Err Result")
  /\ last.op \in {"Result::unwrap", "Result::unwrap_err"} =>
       /\ last.out = IF last.op = "Result::unwrap" THEN Result_unwrap(last.pre)
                                           ELSE Result_unwrap_err(last.pre)
       /\ last.out.status = "throw" <=> ((last.op = "Result::unwrap") = (rmade.ctor = "Err"))
       /\ r = last.pre

\* unwrap() was called on an Err: it failed and the Result is still that Err
C5_Witness ==
  /\ last.op = "Result::unwrap"
  /\ rmade.ctor = "Err"
  /\ last.out.status = "throw"
  /\ r = Result_Err(rmade.val)

\* C6: Ok(x).map(f) is Ok(f(x)) with f invoked exactly once, on x;
\* Err(e).map(f) is Err(e) with f not invoked.
C6_MapOkOnly ==
  last.op = "Result::map" =>
    /\ rmade.ctor = "Ok" =>
         /\ last.out = Ret(Result_Ok(ApplyInt(last.arg, rmade.val)))
         /\ last.calls = <<Call(last.arg, rmade.val)>>
    /\ rmade.ctor = "Err" =>
         /\ last.out = Ret(Result_Err(rmade.val))
         /\ last.calls = <<>>

\* map was called on an Err: the same Err came back and f did not run
C6_Witness ==
  /\ last.op = "Result::map"
  /\ rmade.ctor = "Err"
  /\ last.out.val = Result_Err(rmade.val)
  /\ last.calls = <<>>

\* C7: Ok(x).and_then(f) is the Result f(x) returns, f invoked once;
\* Err(e).and_then(f) is Err(e), f not invoked; in a chain of and_then calls
\* the continuations run in order, each on the Ok payload the one before
\* returned, the first Err is the final result and no later continuation runs.
C7_AndThenShortCircuits ==
  last.op = "Result::and_then" =>
    LET ks == last.arg
        calls == last.calls
        n == Len(last.calls)
        res == last.out.val
    IN  /\ n <= Len(ks)
        /\ \A i \in 1..n : calls[i].f = ks[i]
        /\ rmade.ctor = "Err" => n = 0 /\ res = Result_Err(rmade.val)
        /\ rmade.ctor = "Ok" => n >= 1 /\ calls[1].arg = rmade.val
        /\ \A i \in 1..(n - 1) :
             LET s == ApplyCont(calls[i].f, calls[i].arg)
             IN  Result_is_ok(s) /\ calls[i + 1].arg = s.storage
        /\ n >= 1 => res = ApplyCont(calls[n].f, calls[n].arg)
        /\ n < Len(ks) => Result_is_err(res)

\* in a chain of two and_then calls on an Ok the first continuation returned
\* an Err: it is the result and the second continuation did not run
C7_Witness ==
  /\ last.op = "Result::and_then"
  /\ rmade.ctor = "Ok"
  /\ Len(last.arg) = 2
  /\ Len(last.calls) = 1
  /\ Result_is_err(last.out.val)
  /\ last.out.val = ApplyCont(last.arg[1], rmade.val)

\* C8: an Option is exactly one of Some and None; Some(x).unwrap() is x;
\* None().unwrap() fails; unwrap_or(d) never fails and is x on Some(x) and d
\* on None(); a default-constructed Option is None.
C8_OptionAccessors ==
  /\ Option_is_some(o) # Option_is_none(o)
  /\ omade.ctor = "Some" =>
       /\ Option_is_some(o)
       /\ Option_unwrap(o) = Ret(omade.val)
       /\ \A d \in Ints : Option_unwrap_or(o, d) = Ret(omade.val)
  /\ omade.ctor \in {"None", "Option"} =>
       /\ Option_is_none(o)
       /\ o = Option_None
       /\ Option_unwrap(o) =
            Throw("std::runtime_error", "Called unwrap() on a None Option")
       /\ \A d \in Ints : Option_unwrap_or(o, d) = Ret(d)
  /\ last.op = "Option::unwrap" =>
       /\ last.out = Option_unwrap(last.pre)
       /\ last.out.status = "throw" <=> omade.ctor # "Some"
       /\ o = last.pre
  /\ last.op = "Option::unwrap_or" =>
       /\ last.out.status = "ok"
       /\ last.out.val = IF omade.ctor = "Some" THEN omade.val ELSE last.arg

\* unwrap() was called on a default-constructed Option and failed
C8_Witness ==
  /\ last.op = "Option::unwrap"
  /\ omade.ctor = "Option"
  /\ Option_is_none(o)
  /\ last.out.status = "throw"

\* C9: Some(x).and_then(f) is the Option f(x) returns, f invoked once;
\* None.and_then(f) is None, f not invoked.
C9_OptionAndThen ==
  last.op = "Option::and_then" =>
    /\ omade.ctor = "Some" =>
         /\ last.out = Ret(ApplyOptCont(last.arg, omade.val))
         /\ last.calls = <<Call(last.arg, omade.val)>>
    /\ omade.ctor # "Some" =>
         /\ last.out = Ret(Option_None)
         /\ last.calls = <<>>

\* and_then was called on None with a continuation that returns Some: the
\* result is None and the continuation did not run
C9_Witness ==
  /\ last.op = "Option::and_then"
  /\ omade.ctor = "None"
  /\ last.arg = "inc"
  /\ last.out.val = Option_None
  /\ last.calls = <<>>

\* C10: two instances of a generated record with at least one field compare
\* equal exactly when all their fields are equal, and operator!= is the
\* negation of operator==.
C10_RecordEqualityFieldwise ==
  last.op = "record_compare" =>
    /\ last.out.eq <=> (\A i \in 1..Len(last.pre) : last.pre[i] = last.arg[i])
    /\ last.out.ne <=> ~last.out.eq

\* the member functions of Result called on an lvalue receiver
ResultLvalueOps ==
  {"Result::is_ok", "Result::is_err", "Result::unwrap", "Result::unwrap_err",
   "Result::unwrap_or", "Result::map", "Result::map_err", "Result::and_then",
   "Result::match"}

\* the member functions of Result called on an rvalue receiver
ResultRvalueOps == {"Result::unwrap&&", "Result::unwrap_or&&", "Result::match&&"}

\* C11 as stated: every operation of Result's interface leaves the receiver's
\* Ok/Err state and payload unchanged.
C11_ResultImmutable ==
  last.op \in ResultLvalueOps \cup ResultRvalueOps => r = last.pre

\* C11 as amended: called on an lvalue receiver every operation of Result
\* leaves the Ok/Err state and the payload unchanged, and map, map_err and
\* and_then return a new Result; called on an rvalue receiver the Ok/Err state
\* is unchanged, and the payload changes only in the C++20 revision, only
\* when it is handed to a move constructor (here: by match with a by-value
\* handler; unwrap_or moves the int, which copies it), and only when it is a
\* std::string, which is left moved-from (empty).
C11_ResultUnchangedUnlessMovedFrom ==
  /\ last.op \in ResultLvalueOps => r = last.pre
  /\ last.op = "Result::map" =>
       last.out.val = Result_map(last.pre, last.arg).res
  /\ last.op = "Result::map_err" =>
       last.out.val = Result_map_err(last.pre, last.arg).res
  /\ last.op = "Result::and_then" =>
       last.out.val = AndThenChain(last.pre, last.arg).res
  /\ last.op \in ResultRvalueOps =>
       /\ Result_is_ok(r) = Result_is_ok(last.pre)
       /\ Result_is_err(r) = Result_is_err(last.pre)
       /\ r.storage # last.pre.storage =>
            /\ rev = "cxx20"
            /\ TypeAt(ResultTypes, last.pre.index) = "Text"
            /\ last.op = "Result::match&&"
            /\ last.arg.byvalue
            /\ r.storage = <<>>

\* map was called on an Ok with a function that changes the value: a new
\* Result holds the changed value and the receiver holds the old one
C11_Witness ==
  /\ last.op = "Result::map"
  /\ Result_is_ok(last.pre)
  /\ last.out.val # last.pre
  /\ Result_is_ok(last.out.val)
  /\ r = last.pre

\* the error a failing call shows its caller: the exception's type and what()
ErrorOf(out) == [exc |-> out.exc, what |-> out.what]

\* the errors each of the four failure conditions can produce, over every
\* object and every accessed type
WrongAlternativeErrors ==
  {ErrorOf(Enum_get(rev, x, T)) : <<x, T>> \in
     {p \in Enums \X AllTypes : Enum_get(rev, p[1], p[2]).status = "throw"}}

UnwrapOnErrErrors ==
  {ErrorOf(Result_unwrap(x)) : x \in {y \in Results : Result_unwrap(y).status = "throw"}}

UnwrapOnOkErrors ==
  {ErrorOf(Result_unwrap_err(x)) :
     x \in {y \in Results : Result_unwrap_err(y).status = "throw"}}

UnwrapOnNoneErrors ==
  {ErrorOf(Option_unwrap(x)) : x \in {y \in Options : Option_unwrap(y).status = "throw"}}

\* the errors of the failure conditions other than the one the call op raises
OtherErrors(op) ==
  (IF op = "Enum::get" THEN {} ELSE WrongAlternativeErrors)
  \cup (IF op = "Result::unwrap" THEN {} ELSE UnwrapOnErrErrors)
  \cup (IF op = "Result::unwrap_err" THEN {} ELSE UnwrapOnOkErrors)
  \cup (IF op = "Option::unwrap" THEN {} ELSE UnwrapOnNoneErrors)

\* whether the last call misused its receiver
Misused ==
  \/ last.op = "Enum::get" /\ ~Enum_is(last.pre, last.arg)
  \/ last.op = "Result::unwrap" /\ Result_is_err(last.pre)
  \/ last.op = "Result::unwrap_err" /\ Result_is_ok(last.pre)
  \/ last.op = "Option::unwrap" /\ Option_is_none(last.pre)

\* C12: each of the four failure conditions is raised by the misused call
\* itself, as that call's outcome and with nothing written, and no two of
\* them produce the same error: the error of a failing call is none that
\* another condition produces, and each condition is met on some object.
C12_FailuresDistinguishable ==
  /\ WrongAlternativeErrors # {}
  /\ UnwrapOnErrErrors # {}
  /\ UnwrapOnOkErrors # {}
  /\ UnwrapOnNoneErrors # {}
  /\ last.op \in {"Enum::get", "Result::unwrap", "Result::unwrap_err", "Option::unwrap"} =>
       /\ last.out.status = "throw" <=> Misused
       /\ last.out.status = "throw" =>
            /\ ErrorOf(last.out) \notin OtherErrors(last.op)
            /\ e = IF last.op = "Enum::get" THEN last.pre ELSE e
            /\ r = IF last.op \in {"Result::unwrap", "Result::unwrap_err"}
                     THEN last.pre ELSE r
            /\ o = IF last.op = "Option::unwrap" THEN last.pre ELSE o

\* in the C++11 revision get<T>() failed with a std::runtime_error, the type
\* the three unwrap failures have too, and its message is none of theirs
C12_Witness ==
  /\ rev = "cxx11"
  /\ last.op = "Enum::get"
  /\ last.out.status = "throw"
  /\ last.out.exc = "std::runtime_error"
  /\ Result_unwrap(Result_Err(<<>>)).exc = "std::runtime_error"
  /\ ErrorOf(last.out) \notin OtherErrors("Enum::get")

====
